---------------------------- MODULE Spec2Model ----------------------------
(***************************************************************************)
(* A model of task-a.py: one run of create_running_ec2_list resolves the   *)
(* caller identity, makes sure the report bucket exists, lists the running *)
(* EC2 instances, writes them to a local CSV file, uploads the file and    *)
(* removes it.  Every provider call (STS, S3, EC2) is a step whose outcome *)
(* is chosen by the provider; the script's reaction to each outcome is     *)
(* translated from the source.  Several runs may share the provider-side   *)
(* bucket namespace.                                                       *)
(***************************************************************************)
EXTENDS Naturals, Sequences, FiniteSets

VARIABLES
    bucket,      \* provider side: state of the derived bucket name, as seen by the caller
    created,     \* provider side: how many times the bucket has been brought into existence
    fleet,       \* provider side: the account's instances in the region, in listing order
    faults,      \* whether the provider may answer with errors unrelated to the bucket state
    pc,          \* per run: position in create_running_ec2_list
    log,         \* per run: what the module-level logger received, in order
    probeOut,    \* per run: how head_bucket answered ("none" before the probe)
    createOut,   \* per run: how create_bucket answered ("none" when not called)
    createCalls, \* per run: number of create_bucket calls issued
    idx,         \* per run: number of running instances the for loop has consumed
    records,     \* per run: running_istances of get_ec2_list
    listOut,     \* per run: "none", "ok" (loop ran to its end) or "error" (ClientError caught)
    fileExists,  \* per run: whether the local CSV file is on disk
    fileRows,    \* per run: rows of the local CSV file
    uploadOut,   \* per run: how upload_file ended ("none" before the upload)
    cause        \* per run: the step whose exception left create_running_ec2_list

vars == <<bucket, created, fleet, faults, pc, log, probeOut, createOut, createCalls,
          idx, records, listOut, fileExists, fileRows, uploadOut, cause>>

-----------------------------------------------------------------------------
(* Bounds *)

\* Largest number of instances in the account's fleet.
MaxInstances == 2

\* The runs that may execute against the same account and region.
Runs == {1, 2}

-----------------------------------------------------------------------------
(* Values *)

\* Python's None, for the string-valued attributes that may be absent.
None == "<None>"

\* HTTP status codes is_bucket_exists compares the parsed error code with.
Forbidden == 403
NotFound == 404

\* The error codes a failed head_bucket carries: a HEAD response has no body,
\* so the code is the HTTP status as a string.
ErrorCodes == {"400", "403", "404", "500"}

\* int(ce.response['Error']['Code'])
int(code) ==
    CASE code = "400" -> 400
      [] code = "403" -> 403
      [] code = "404" -> 404
      [] code = "500" -> 500

\* instance.tags: None for an instance without tags, else a list of Key/Value pairs.
NoTags == [isNone |-> TRUE, items |-> <<>>]
Tags(items) == [isNone |-> FALSE, items |-> items]

TagSets ==
    { NoTags,
      Tags(<<[Key |-> "Name", Value |-> "web-1"]>>),
      Tags(<<[Key |-> "env", Value |-> "prod"]>>),
      Tags(<<[Key |-> "env", Value |-> "prod"], [Key |-> "Name", Value |-> "db-1"]>>) }

\* Machine images: a description that may be absent or empty, and a name.
Images ==
    { [description |-> "Ubuntu 22.04", name |-> "ubuntu-ami"],
      [description |-> "",             name |-> "custom-ami"],
      [description |-> None,           name |-> "bare-ami"] }

\* Instance identifiers, by position in the fleet.
InstanceIds == <<"i-0abc1", "i-0abc2", "i-0abc3", "i-0abc4">>

InstanceShapes ==
    [tags : TagSets, image : Images, state : {"running"}]
      \cup { [tags |-> Tags(<<[Key |-> "Name", Value |-> "web-1"]>>),
              image |-> [description |-> "Ubuntu 22.04", name |-> "ubuntu-ami"],
              state |-> "stopped"] }

\* A fleet of at most n instances: each shape gets the identifier of its position.
Fleets(n) ==
    { [k \in 1..Len(sh) |->
          [instance_id |-> InstanceIds[k], tags |-> sh[k].tags,
           image |-> sh[k].image, state |-> sh[k].state]] :
      sh \in UNION { [1..m -> InstanceShapes] : m \in 0..n } }

\* Log records: level and message kind.
Warning(msg) == <<"warning", msg>>
Info(msg) == <<"info", msg>>
Error(msg) == <<"error", msg>>

-----------------------------------------------------------------------------
(* The provider *)

\* s3.meta.client.head_bucket: success, or a ClientError with a status code.
\* The bucket state decides the answer; a faulty provider may also answer
\* with an error that says nothing about the bucket.
HeadBucketOutcomes(b, f) ==
    { CASE b = "accessible" -> "ok"
        [] b = "forbidden" -> "403"
        [] b = "absent" -> "404" }
      \cup (IF f THEN {"400", "500"} ELSE {})

\* s3.create_bucket: creating an absent name succeeds; a name owned by someone
\* else is refused; a name the caller owns is refused or accepted again,
\* depending on the region.  "error" is a ClientError.
CreateBucketOutcomes(b, f) ==
    CASE b = "absent" -> {"ok"} \cup (IF f THEN {"error"} ELSE {})
      [] b = "accessible" -> {"ok", "error"}
      [] b = "forbidden" -> {"error"}

\* s3_client.upload_file: succeeds only into an accessible bucket; a failure
\* reaches the caller as a ClientError or as another exception type.
UploadOutcomes(b, f) ==
    (IF b = "accessible" THEN {"ok"} ELSE {"ClientError", "OtherError"})
      \cup (IF f THEN {"ClientError", "OtherError"} ELSE {})

\* ec2.instances.filter(Filters=[instance-state-name = running])
filter(fl) == SelectSeq(fl, LAMBDA i : i.state = "running")

-----------------------------------------------------------------------------
(* Pure parts of the script *)

\* is_bucket_exists with allow_access never set: the success path returns False.
is_bucket_exists_no_access(out) ==
    LET error_code == int(out)
        logged == IF out = "ok" THEN <<>>
                  ELSE IF error_code = Forbidden THEN <<Warning("forbidden")>>
                  ELSE IF error_code = NotFound THEN <<Info("not-found")>>
                  ELSE <<>>
    IN [raised |-> FALSE, value |-> FALSE, logged |-> logged]

\* is_bucket_exists with an else branch that re-raises the unclassified codes.
is_bucket_exists_reraise(out) ==
    LET error_code == int(out)
        exists == IF out = "ok" THEN TRUE
                  ELSE error_code = Forbidden
        allow_access == out = "ok"
        logged == IF out = "ok" THEN <<>>
                  ELSE IF error_code = Forbidden THEN <<Warning("forbidden")>>
                  ELSE IF error_code = NotFound THEN <<Info("not-found")>>
                  ELSE <<>>
    IN [raised |-> out # "ok" /\ error_code \notin {Forbidden, NotFound},
        value |-> exists /\ allow_access, logged |-> logged]

\* is_bucket_exists, given the answer of head_bucket: the value returned and
\* what was logged.  No branch re-raises.
is_bucket_exists(out) ==
    LET error_code == int(out)
        exists == IF out = "ok" THEN TRUE
                  ELSE error_code = Forbidden
        allow_access == out = "ok"
        logged == IF out = "ok" THEN <<>>
                  ELSE IF error_code = Forbidden THEN <<Warning("forbidden")>>
                  ELSE IF error_code = NotFound THEN <<Info("not-found")>>
                  ELSE <<>>
    IN [raised |-> FALSE, value |-> exists /\ allow_access, logged |-> logged]

\* The for loop of get_ec2_name from position i on: the value of the first
\* tag whose key is "Name", None when the loop ends without one.
RECURSIVE ScanTags(_, _)
ScanTags(items, i) ==
    IF i > Len(items) THEN None
    ELSE IF items[i].Key = "Name" THEN items[i].Value
    ELSE ScanTags(items, i + 1)

\* get_ec2_name: iterating over instance.tags raises TypeError when it is None.
get_ec2_name(instance) ==
    IF instance.tags.isNone
    THEN [raised |-> TRUE, value |-> None]
    ELSE [raised |-> FALSE, value |-> ScanTags(instance.tags.items, 1)]

\* The display name of get_ec2_list, given the value get_ec2_name returned.
instance_name(instance, name) ==
    IF name = None THEN instance.instance_id ELSE name

\* The image description with a truthiness test (if not instance_ami) in
\* place of the test for None.
instance_ami_falsy(image) ==
    IF image.description \in {None, ""} THEN image.name ELSE image.description

\* The image description of get_ec2_list.
instance_ami(image) ==
    IF image.description = None THEN image.name ELSE image.description

\* The dict get_ec2_list appends for an instance.
instance_info(instance) ==
    [Name |-> instance_name(instance, get_ec2_name(instance).value),
     Ami |-> instance_ami(instance.image)]

\* The except clause of create_running_ec2_list: a ClientError is logged as
\* an error and the command returns; any other exception leaves the command.
create_running_ec2_list_except(exc) ==
    IF exc = "ClientError"
    THEN [pc |-> "failed", logged |-> <<Error("client-error")>>]
    ELSE [pc |-> "crashed", logged |-> <<>>]

\* create_not_exists_bucket without its except clause: the ClientError of
\* create_bucket reaches the except clause of the command.
create_not_exists_bucket_after_reraise(out) ==
    IF out = "ok"
    THEN [pc |-> "list", logged |-> <<>>, cause |-> "none"]
    ELSE [pc |-> "failed", logged |-> <<Error("client-error")>>, cause |-> "create"]

\* create_not_exists_bucket with an except clause that logs nothing.
create_not_exists_bucket_after_silent(out) ==
    [pc |-> "list", logged |-> <<>>, cause |-> "none"]

\* create_not_exists_bucket once create_bucket has answered: a ClientError is
\* logged as a warning and swallowed, and the caller goes on either way.
create_not_exists_bucket_after(out) ==
    IF out = "ok"
    THEN [pc |-> "list", logged |-> <<>>, cause |-> "none"]
    ELSE [pc |-> "list", logged |-> <<Warning("create")>>, cause |-> "none"]

\* get_ec2_list with an except clause that returns an empty list.
get_ec2_list_except_empty(running_istances) ==
    [returned |-> <<>>, logged |-> <<Warning("list")>>]

\* The except clause of get_ec2_list: the ClientError is logged as a warning
\* and the list built so far is returned.
get_ec2_list_except(running_istances) ==
    [returned |-> running_istances, logged |-> <<Warning("list")>>]

\* writer.writerow([r_instance[RunInfo.Name], r_instance[RunInfo.Ami]])
Row(r_instance) == <<r_instance.Name, r_instance.Ami>>

\* The rows write_local_file has written after n records.
Rows(running_istances, n) == [k \in 1..n |-> Row(running_istances[k])]

\* How write_local_file may end: all rows written, open() failing, or an
\* OSError after n rows.
WriteOutcomes(running_istances, f) ==
    {[kind |-> "ok", n |-> Len(running_istances)]}
      \cup (IF f
            THEN {[kind |-> "open-error", n |-> 0]}
                   \cup {[kind |-> "write-error", n |-> j] :
                            j \in 0..(Len(running_istances) - 1)}
            ELSE {})

\* How a provider call that does not depend on the bucket may end.
CallOutcomes(f) == {"ok"} \cup (IF f THEN {"ClientError", "OtherError"} ELSE {})

-----------------------------------------------------------------------------
(* Initial states *)

InitRun(started) ==
    /\ created = 0
    /\ pc = [r \in Runs |-> IF r \in started THEN "identity" ELSE "off"]
    /\ log = [r \in Runs |-> <<>>]
    /\ probeOut = [r \in Runs |-> "none"]
    /\ createOut = [r \in Runs |-> "none"]
    /\ createCalls = [r \in Runs |-> 0]
    /\ idx = [r \in Runs |-> 0]
    /\ records = [r \in Runs |-> <<>>]
    /\ listOut = [r \in Runs |-> "none"]
    /\ fileExists = [r \in Runs |-> FALSE]
    /\ fileRows = [r \in Runs |-> <<>>]
    /\ uploadOut = [r \in Runs |-> "none"]
    /\ cause = [r \in Runs |-> "none"]

\* One run, against any bucket state and any fleet, with a provider that may fail.
Init ==
    /\ bucket \in {"absent", "accessible", "forbidden"}
    /\ fleet \in Fleets(MaxInstances)
    /\ faults = TRUE
    /\ InitRun({1})

\* Two simultaneous runs for the same account and region; the bucket does not
\* exist yet and the provider answers according to the bucket state.
InitRace ==
    /\ bucket = "absent"
    /\ fleet \in Fleets(1)
    /\ faults = FALSE
    /\ InitRun(Runs)

-----------------------------------------------------------------------------
(* Steps of create_running_ec2_list *)

\* An exception raised at `site` reaches the except clause of the command.
Propagate(r, exc, site) ==
    LET h == create_running_ec2_list_except(exc)
    IN /\ pc' = [pc EXCEPT ![r] = h.pc]
       /\ log' = [log EXCEPT ![r] = @ \o h.logged]
       /\ cause' = [cause EXCEPT ![r] = site]

\* boto3.client('sts').get_caller_identity(), the resources and get_bucket_name.
Identity(r) ==
    /\ pc[r] = "identity"
    /\ \E out \in CallOutcomes(faults) :
          IF out = "ok"
          THEN /\ pc' = [pc EXCEPT ![r] = "probe"]
               /\ UNCHANGED <<log, cause>>
          ELSE Propagate(r, out, "identity")
    /\ UNCHANGED <<bucket, created, fleet, faults, probeOut, createOut, createCalls,
                   idx, records, listOut, fileExists, fileRows, uploadOut>>

\* create_not_exists_bucket up to the decision: head_bucket, is_bucket_exists.
\* A ClientError leaving is_bucket_exists would be caught by the same try.
Probe(r) ==
    /\ pc[r] = "probe"
    /\ \E out \in HeadBucketOutcomes(bucket, faults) :
          LET res == is_bucket_exists(out)
          IN /\ probeOut' = [probeOut EXCEPT ![r] = out]
             /\ IF res.raised
                THEN /\ pc' = [pc EXCEPT ![r] = "list"]
                     /\ log' = [log EXCEPT ![r] = @ \o <<Warning("probe")>>]
                ELSE /\ pc' = [pc EXCEPT ![r] = IF ~res.value THEN "create" ELSE "list"]
                     /\ log' = [log EXCEPT ![r] = @ \o res.logged]
    /\ UNCHANGED <<bucket, created, fleet, faults, createOut, createCalls,
                   idx, records, listOut, fileExists, fileRows, uploadOut, cause>>

\* s3.create_bucket(Bucket=bucket_name) and the except clause around it.
Create(r) ==
    /\ pc[r] = "create"
    /\ \E out \in CreateBucketOutcomes(bucket, faults) :
          LET h == create_not_exists_bucket_after(out)
              made == out = "ok" /\ bucket = "absent"
          IN /\ createCalls' = [createCalls EXCEPT ![r] = @ + 1]
             /\ createOut' = [createOut EXCEPT ![r] = out]
             /\ bucket' = IF made THEN "accessible" ELSE bucket
             /\ created' = IF made THEN created + 1 ELSE created
             /\ pc' = [pc EXCEPT ![r] = h.pc]
             /\ log' = [log EXCEPT ![r] = @ \o h.logged]
             /\ cause' = [cause EXCEPT ![r] = h.cause]
    /\ UNCHANGED <<fleet, faults, probeOut, idx, records, listOut,
                   fileExists, fileRows, uploadOut>>

\* get_ec2_list: running_istances = [] and ec2.instances.filter(...).
ListStart(r) ==
    /\ pc[r] = "list"
    /\ \E out \in CallOutcomes(faults) \ {"OtherError"} :
          IF out = "ok"
          THEN /\ pc' = [pc EXCEPT ![r] = "iter"]
               /\ records' = [records EXCEPT ![r] = <<>>]
               /\ idx' = [idx EXCEPT ![r] = 0]
               /\ UNCHANGED <<log, listOut>>
          ELSE LET h == get_ec2_list_except(<<>>)
               IN /\ pc' = [pc EXCEPT ![r] = "write"]
                  /\ records' = [records EXCEPT ![r] = h.returned]
                  /\ log' = [log EXCEPT ![r] = @ \o h.logged]
                  /\ listOut' = [listOut EXCEPT ![r] = "error"]
                  /\ UNCHANGED idx
    /\ UNCHANGED <<bucket, created, fleet, faults, probeOut, createOut, createCalls,
                   fileExists, fileRows, uploadOut, cause>>

\* One pass of the for loop of get_ec2_list, or its end.
Iterate(r) ==
    /\ pc[r] = "iter"
    /\ LET instances == filter(fleet)
       IN IF idx[r] = Len(instances)
          THEN /\ pc' = [pc EXCEPT ![r] = "write"]
               /\ listOut' = [listOut EXCEPT ![r] = "ok"]
               /\ UNCHANGED <<log, idx, records, cause>>
          ELSE \E out \in {"ok"} \cup (IF faults THEN {"iter-error", "image-error"} ELSE {}) :
                  LET instance == instances[idx[r] + 1]
                  IN IF out # "iter-error" /\ get_ec2_name(instance).raised
                     THEN /\ Propagate(r, "TypeError", "list")
                          /\ UNCHANGED <<idx, records, listOut>>
                     ELSE IF out = "ok"
                     THEN /\ records' = [records EXCEPT ![r] = Append(@, instance_info(instance))]
                          /\ idx' = [idx EXCEPT ![r] = @ + 1]
                          /\ UNCHANGED <<pc, log, listOut, cause>>
                     ELSE LET h == get_ec2_list_except(records[r])
                          IN /\ pc' = [pc EXCEPT ![r] = "write"]
                             /\ records' = [records EXCEPT ![r] = h.returned]
                             /\ log' = [log EXCEPT ![r] = @ \o h.logged]
                             /\ listOut' = [listOut EXCEPT ![r] = "error"]
                             /\ UNCHANGED <<idx, cause>>
    /\ UNCHANGED <<bucket, created, fleet, faults, probeOut, createOut, createCalls,
                   fileExists, fileRows, uploadOut>>

\* write_local_file(csv_f_name, running_istances): an OSError is not caught.
Write(r) ==
    /\ pc[r] = "write"
    /\ \E out \in WriteOutcomes(records[r], faults) :
          /\ fileExists' = [fileExists EXCEPT ![r] = out.kind # "open-error"]
          /\ fileRows' = [fileRows EXCEPT ![r] = Rows(records[r], out.n)]
          /\ IF out.kind = "ok"
             THEN /\ pc' = [pc EXCEPT ![r] = "upload"]
                  /\ UNCHANGED <<log, cause>>
             ELSE Propagate(r, "OSError", "write")
    /\ UNCHANGED <<bucket, created, fleet, faults, probeOut, createOut, createCalls,
                   idx, records, listOut, uploadOut>>

\* s3_client.upload_file(csv_f_name, s3_bucket_name, csv_f_name)
Upload(r) ==
    /\ pc[r] = "upload"
    /\ \E out \in UploadOutcomes(bucket, faults) :
          /\ uploadOut' = [uploadOut EXCEPT ![r] = out]
          /\ IF out = "ok"
             THEN /\ pc' = [pc EXCEPT ![r] = "remove"]
                  /\ UNCHANGED <<log, cause>>
             ELSE Propagate(r, out, "upload")
    /\ UNCHANGED <<bucket, created, fleet, faults, probeOut, createOut, createCalls,
                   idx, records, listOut, fileExists, fileRows>>

\* if os.path.exists(csv_f_name): os.remove(csv_f_name)
Remove(r) ==
    /\ pc[r] = "remove"
    /\ fileExists' = [fileExists EXCEPT ![r] = FALSE]
    /\ fileRows' = [fileRows EXCEPT ![r] = <<>>]
    /\ pc' = [pc EXCEPT ![r] = "done"]
    /\ UNCHANGED <<bucket, created, fleet, faults, log, probeOut, createOut, createCalls,
                   idx, records, listOut, uploadOut, cause>>

Next ==
    \E r \in Runs :
        \/ Identity(r)
        \/ Probe(r)
        \/ Create(r)
        \/ ListStart(r)
        \/ Iterate(r)
        \/ Write(r)
        \/ Upload(r)
        \/ Remove(r)

Spec == Init /\ [][Next]_vars

SpecRace == InitRace /\ [][Next]_vars

-----------------------------------------------------------------------------
(* Vocabulary of the properties *)

\* The record `entry` was logged.
Logged(l, entry) == \E i \in DOMAIN l : l[i] = entry

\* create_not_exists_bucket has returned to create_running_ec2_list.
Resolved(r) ==
    \/ pc[r] \in {"list", "iter", "write", "upload", "remove", "done"}
    \/ pc[r] \in {"failed", "crashed"} /\ cause[r] \in {"list", "write", "upload"}

\* The error codes is_bucket_exists has no branch for.
OtherCodes == ErrorCodes \ {"403", "404"}

\* The instance carries a tag with key "Name".
HasNameTag(instance) ==
    /\ ~instance.tags.isNone
    /\ \E i \in DOMAIN instance.tags.items : instance.tags.items[i].Key = "Name"

\* The value of the instance's tag with key "Name".
NameTagValue(instance) ==
    LET items == instance.tags.items
    IN items[CHOOSE i \in DOMAIN items : items[i].Key = "Name"].Value

-----------------------------------------------------------------------------
(* Bucket resolver *)

\* C1: a probe answered 404 is followed by exactly one create_bucket call (none
\* while the call is still pending, one from then on); a probe that succeeded
\* is followed by none.
C1_ProbeDecidesCreation ==
    \A r \in Runs :
        /\ probeOut[r] = "404" =>
              createCalls[r] = (IF pc[r] = "create" THEN 0 ELSE 1)
        /\ probeOut[r] = "ok" => createCalls[r] = 0 /\ pc[r] # "create"

C1_Witness ==
    \E r \in Runs : probeOut[r] = "404" /\ createCalls[r] = 1 /\ pc[r] = "done"

\* C2: a probe answered 403 logs a warning and is followed by no create_bucket call.
C2_ForbiddenNeverCreates ==
    \A r \in Runs :
        probeOut[r] = "403" =>
            /\ Logged(log[r], Warning("forbidden"))
            /\ createCalls[r] = 0

\* C3 as stated: a probe error with a code other than 403 and 404 leaves the
\* probe step as an exception, so the run ends there and no create_bucket call
\* is issued.
C3_OtherCodePropagates ==
    \A r \in Runs :
        probeOut[r] \in OtherCodes =>
            /\ pc[r] \in {"failed", "crashed"}
            /\ cause[r] = "probe"
            /\ createCalls[r] = 0

\* C3 amended: a probe error with a code other than 403 and 404 is swallowed by
\* is_bucket_exists without a log record, the resolver then issues exactly one
\* create_bucket call, and a ClientError of that call is logged as a warning
\* and swallowed.
C3_OtherCodeSwallowed ==
    \A r \in Runs :
        probeOut[r] \in OtherCodes =>
            /\ cause[r] # "probe"
            /\ IF pc[r] = "create"
               THEN createCalls[r] = 0 /\ log[r] = <<>>
               ELSE /\ createCalls[r] = 1
                    /\ Resolved(r)
                    /\ createOut[r] = "error" =>
                          log[r][1] = Warning("create") /\ cause[r] # "create"

C3_Witness ==
    \E r \in Runs :
        /\ probeOut[r] \in OtherCodes
        /\ createCalls[r] = 1
        /\ createOut[r] = "error"
        /\ pc[r] = "list"

\* C4: a ClientError of create_bucket is logged as a warning and does not leave
\* create_not_exists_bucket: whatever create_bucket answered, the run is past
\* the resolver, on the path that lists, writes and uploads.
C4_CreateErrorSwallowed ==
    \A r \in Runs :
        /\ createOut[r] # "none" => Resolved(r)
        /\ createOut[r] = "error" =>
              /\ Logged(log[r], Warning("create"))
              /\ cause[r] # "create"
              /\ ~Logged(log[r], Error("client-error")) \/ cause[r] \in {"upload"}

C4_Witness ==
    \E r \in Runs :
        /\ createOut[r] = "error"
        /\ pc[r] = "upload"
        /\ fileExists[r]

\* C5: once the resolver has returned, the bucket is accessible or the
\* resolution logged a warning.
C5_ResolvedOrWarned ==
    \A r \in Runs :
        Resolved(r) =>
            \/ bucket = "accessible"
            \/ \E m \in {"forbidden", "create", "probe"} : Logged(log[r], Warning(m))

C5_Witness ==
    \E r \in Runs :
        /\ Resolved(r)
        /\ probeOut[r] = "404"
        /\ createOut[r] = "error"
        /\ bucket = "absent"

-----------------------------------------------------------------------------
(* Local report file *)

\* C6: the file is gone at the end of a successful run, it is removed only
\* after a successful upload, and a failed upload is caught and logged as an
\* error by the command with the file still on disk.
C6_FileLifecycle ==
    \A r \in Runs :
        /\ pc[r] = "done" => ~fileExists[r] /\ uploadOut[r] = "ok"
        /\ pc[r] \in {"upload", "remove"} => fileExists[r]
        /\ uploadOut[r] \in {"ClientError", "OtherError"} =>
              /\ pc[r] = "failed"
              /\ Logged(log[r], Error("client-error"))
              /\ fileExists[r]

-----------------------------------------------------------------------------
(* Instance lister *)

\* C7: every running instance gets a record whose display name is its "Name"
\* tag value, or its identifier when it has no such tag (an instance without
\* any tags included); the lister neither fails on nor drops an instance.
C7_DisplayName ==
    \A r \in Runs :
        /\ ~(pc[r] = "crashed" /\ cause[r] = "list")
        /\ listOut[r] = "ok" => Len(records[r]) = Len(filter(fleet))
        /\ \A k \in DOMAIN records[r] :
              LET instance == filter(fleet)[k]
              IN records[r][k].Name =
                    (IF HasNameTag(instance) THEN NameTagValue(instance)
                     ELSE instance.instance_id)

\* C8 as stated: the image field is the description when it is present and
\* non-empty, and the image's name when it is empty or absent.
C8_EmptyOrAbsentFallsBack ==
    \A r \in Runs : \A k \in DOMAIN records[r] :
        LET image == filter(fleet)[k].image
        IN records[r][k].Ami =
              (IF image.description \in {None, ""} THEN image.name
               ELSE image.description)

\* C8 amended: the image field is the description whenever one is present,
\* the empty string included, and the image's name only when it is absent.
C8_AbsentFallsBack ==
    \A r \in Runs : \A k \in DOMAIN records[r] :
        LET image == filter(fleet)[k].image
        IN records[r][k].Ami =
              (IF image.description = None THEN image.name
               ELSE image.description)

C8_Witness ==
    \E r \in Runs :
        /\ Len(records[r]) = 2
        /\ filter(fleet)[1].image.description = ""
        /\ records[r][1].Ami = ""
        /\ filter(fleet)[2].image.description = None
        /\ records[r][2].Ami = filter(fleet)[2].image.name

\* C9: after a ClientError during listing, get_ec2_list has logged a warning
\* and returned the records of the instances processed before the error, in
\* order; the run goes on to write exactly those records and to upload.
C9_PartialListing ==
    \A r \in Runs :
        listOut[r] = "error" =>
            /\ Logged(log[r], Warning("list"))
            /\ cause[r] # "list"
            /\ pc[r] \notin {"list", "iter"}
            /\ Len(records[r]) = idx[r]
            /\ \A k \in 1..idx[r] :
                  LET instance == filter(fleet)[k]
                  IN records[r][k] =
                        [Name |-> IF HasNameTag(instance) THEN NameTagValue(instance)
                                  ELSE instance.instance_id,
                         Ami |-> IF instance.image.description = None
                                 THEN instance.image.name
                                 ELSE instance.image.description]
            /\ pc[r] = "upload" =>
                  /\ fileExists[r]
                  /\ Len(fileRows[r]) = idx[r]
                  /\ \A k \in 1..idx[r] :
                        fileRows[r][k] = <<records[r][k].Name, records[r][k].Ami>>

C9_Witness ==
    \E r \in Runs :
        /\ listOut[r] = "error"
        /\ Len(filter(fleet)) = 2
        /\ Len(records[r]) = 1
        /\ pc[r] = "upload"

-----------------------------------------------------------------------------
(* Two simultaneous runs *)

\* C10: with two runs racing for the absent bucket, the bucket is created
\* exactly once, no run leaves the command because of the probe, the creation
\* or the upload, and every run past the resolver finds the bucket in place.
C10_RaceHarmless ==
    /\ created <= 1
    /\ \A r \in Runs :
          /\ cause[r] \notin {"probe", "create", "upload"}
          /\ uploadOut[r] \in {"none", "ok"}
          /\ Resolved(r) => bucket = "accessible" /\ created = 1

C10_Witness ==
    /\ \A r \in Runs : pc[r] = "done" /\ createCalls[r] = 1
    /\ \E r \in Runs : createOut[r] = "error"
    /\ created = 1

=============================================================================
